---- MODULE Spec2Model ----
(***************************************************************************)
(* Model of featureFinder's detection profiles (detection_settings.py)    *)
(* and of its geometry helpers (processing_support.py).                   *)
(*                                                                         *)
(* Units.  Python floats that the profiles hold are kept exact:           *)
(*   circularity_min and fid_triangle_area are in tenths (0.8 -> 8,       *)
(*   9.8 -> 98); rotations and clock angles are whole degrees; the pivot  *)
(*   None is the empty tuple <<>>.  Python tuples and lists are TLA+      *)
(*   sequences, so Python's x[0] is x[1] here.                            *)
(***************************************************************************)
EXTENDS Integers, Sequences, FiniteSets, TLC

VARIABLES
    \* --- construction of one profile, step by step (SpecProfile) ---
    pc,        \* position of the constructor: idle, new, overrides, check, done
    cls,       \* class of the profile under construction
    kwargs,    \* <<>> (no test_system keyword) or <<tag>>
    prof,      \* attribute values seen through the instance
    dirty,     \* gauss/circle_size/rect_size written since normalization last ran
    nspec,     \* runs of set_test_system_specifics made by the constructor
    calls,     \* tags of the set_test_system_specifics calls made after construction
    \* --- several instances and the list objects they reference (SpecAlias) ---
    insts,     \* sequence of instances: class, attributes, orientation references
    heap,      \* list objects: address -> <<flipX, flipY, rotation>>
    lastop,    \* the instance the latest operation acted on (0: none yet)
    nops,      \* operations made on constructed instances
    \* --- the pure helpers (SpecFn) ---
    fn,        \* the function called
    args,      \* its arguments
    out,       \* its result
    fpc        \* call, ret

vars == <<pc, cls, kwargs, prof, dirty, nspec, calls, insts, heap, lastop, nops, fn, args, out, fpc>>
profVars == <<pc, cls, kwargs, prof, dirty, nspec, calls>>
aliasVars == <<insts, heap, lastop, nops>>
fnVars == <<fn, args, out, fpc>>

(***************************************************************************)
(* Bounds                                                                  *)
(***************************************************************************)
MaxCalls == 2      \* set_test_system_specifics calls made after construction
Scale == 2         \* kernel inputs are the multiples of 1/Scale
MaxKernel == 12    \* kernel inputs lie in -MaxKernel .. MaxKernel, in steps of 1/Scale
MaxSize == 3       \* circle_size / rect_size inputs lie in -1 .. MaxSize
MaxCoord == 2      \* midpoint and angle: coordinates lie in -MaxCoord .. MaxCoord
MaxNear == 1       \* nearest point: coordinates lie in 0 .. MaxNear
MaxRefs == 3       \* length of the references list
MaxInst == 2       \* instances alive at once
MaxOps == 2        \* operations made on constructed instances

(***************************************************************************)
(* Profiles: classes, tags, attributes                                     *)
(***************************************************************************)
Classes == {"Default", "Galileo", "Midas", "ML2", "Hydra", "TriOptics"}
\* the four tags the classes know, and one no class knows
Tags == {"JOHNNY5", "BAT", "PIN", "TET", "XYZ"}
Fields == {"circle_size", "circularity_min", "default_pivot_point", "deviation_cutoff",
           "gauss", "hough_min_length", "rect_size", "threshold", "ang2pxl",
           "default_clock_angle", "fid_triangle_area", "orientation_left",
           "orientation_right"}
Normalized == {"gauss", "circle_size", "rect_size"}
NoPatch == [f \in {} |-> 0]

\* attribute assignment: the fields of patch replace those of p
Apply(p, patch) == [f \in DOMAIN p |-> IF f \in DOMAIN patch THEN patch[f] ELSE p[f]]

\* class-level attributes of DefaultDetection
ClassAttrs ==
    [circle_size |-> <<1000, 6000>>,
     circularity_min |-> 8,
     default_pivot_point |-> <<1800, 1050>>,
     deviation_cutoff |-> 100,
     gauss |-> 11,
     hough_min_length |-> 30,
     rect_size |-> <<10000, 30000>>,
     threshold |-> 30,
     ang2pxl |-> 65,
     default_clock_angle |-> 0,
     fid_triangle_area |-> 0,
     orientation_left |-> <<FALSE, FALSE, 0>>,
     orientation_right |-> <<FALSE, FALSE, 0>>]

\* Python's int() of the fixed-point number num/Scale: truncation toward zero
IntTrunc(num) == IF num >= 0 THEN num \div Scale ELSE -((-num) \div Scale)

\* the negative branch left out: Python's % then finds -3 odd and returns it
even_to_odd_no_reset(num) ==
    IF IntTrunc(num) % 2 = 0 THEN IntTrunc(num + Scale) ELSE IntTrunc(num)

\* _even_to_odd(val) for val = num/Scale
even_to_odd(num) ==
    IF num < 0 THEN 1
    ELSE IF IntTrunc(num) % 2 = 0 THEN IntTrunc(num + Scale)
    ELSE IntTrunc(num)

\* the inner test left out: the minimum is kept when the maximum is clamped
limit_fiducial_size_keep_min(circle, rect) ==
    IF circle[2] > rect[1] THEN <<circle[1], rect[1]>> ELSE circle

\* _limit_fiducial_size: the circle_size it leaves, from circle_size and rect_size
limit_fiducial_size(circle, rect) ==
    IF circle[2] > rect[1]
    THEN <<IF circle[1] > rect[1] THEN 0 ELSE circle[1], rect[1]>>
    ELSE circle

\* DefaultDetection.__init__: gauss normalized, then the fiducial size limited
DefaultInit(p) ==
    LET g == Apply(p, [gauss |-> even_to_odd(p.gauss * Scale)])
    IN  Apply(g, [circle_size |-> limit_fiducial_size(g.circle_size, g.rect_size)])

GalileoOverrides ==
    [ang2pxl |-> 65,
     circle_size |-> <<1000, 5000>>,
     circularity_min |-> 7,
     default_clock_angle |-> -5,
     default_pivot_point |-> <<1900, 1100>>,
     deviation_cutoff |-> 150,
     fid_triangle_area |-> 98,
     gauss |-> 1,
     hough_min_length |-> 50,
     orientation_left |-> <<FALSE, FALSE, 0>>,
     orientation_right |-> <<FALSE, FALSE, 0>>,
     rect_size |-> <<10000, 50000>>,
     threshold |-> 10]

MidasOverrides ==
    [ang2pxl |-> 65,
     circle_size |-> <<1000, 6000>>,
     circularity_min |-> 8,
     default_clock_angle |-> -5,
     default_pivot_point |-> <<>>,
     deviation_cutoff |-> 200,
     fid_triangle_area |-> 118,
     gauss |-> 89,
     hough_min_length |-> 0,
     orientation_left |-> <<TRUE, FALSE, -90>>,
     orientation_right |-> <<FALSE, FALSE, 90>>,
     rect_size |-> <<15000, 35000>>,
     threshold |-> 100]

ML2Overrides ==
    [ang2pxl |-> 80,
     circle_size |-> <<1000, 10000>>,
     circularity_min |-> 2,
     default_clock_angle |-> -5,
     default_pivot_point |-> <<>>,
     deviation_cutoff |-> 150,
     fid_triangle_area |-> 583,
     gauss |-> 1,
     orientation_left |-> <<FALSE, TRUE, 90>>,
     orientation_right |-> <<TRUE, TRUE, 90>>,
     rect_size |-> <<10000, 50000>>,
     threshold |-> 30]

HydraOverrides ==
    [ang2pxl |-> 78,
     circle_size |-> <<0, 0>>,
     circularity_min |-> 0,
     default_clock_angle |-> 0,
     default_pivot_point |-> <<>>,
     deviation_cutoff |-> 200,
     fid_triangle_area |-> 0,
     gauss |-> 21,
     hough_min_length |-> 15,
     orientation_left |-> <<FALSE, FALSE, 0>>,
     orientation_right |-> <<FALSE, FALSE, 0>>,
     rect_size |-> <<10000, 30000>>,
     threshold |-> 30]

TriOpticsOverrides ==
    [default_pivot_point |-> <<>>,
     deviation_cutoff |-> 250,
     gauss |-> 1,
     hough_min_length |-> 500,
     orientation_left |-> <<FALSE, FALSE, 0>>,
     orientation_right |-> <<FALSE, FALSE, 0>>,
     threshold |-> 10]

\* the assignments a class's __init__ makes after super().__init__()
Overrides(c) ==
    CASE c = "Galileo" -> GalileoOverrides
      [] c = "Midas" -> MidasOverrides
      [] c = "ML2" -> ML2Overrides
      [] c = "Hydra" -> HydraOverrides
      [] c = "TriOptics" -> TriOpticsOverrides
      [] OTHER -> NoPatch

\* DefaultDetection.set_test_system_specifics: pass
DefaultSpecifics(tag) == NoPatch

\* JOHNNY5 also lowers the threshold
GalileoSpecificsExtraField(tag) ==
    CASE tag = "JOHNNY5" -> [hough_min_length |-> 40, threshold |-> 5]
      [] tag = "BAT" -> [default_pivot_point |-> <<>>, orientation_right |-> <<TRUE, FALSE, 0>>]
      [] OTHER -> NoPatch

GalileoSpecifics(tag) ==
    CASE tag = "JOHNNY5" -> [hough_min_length |-> 40]
      [] tag = "BAT" -> [default_pivot_point |-> <<>>, orientation_right |-> <<TRUE, FALSE, 0>>]
      [] OTHER -> NoPatch

\* PIN with an even kernel and a fiducial larger than the feature
MidasSpecificsUnnormalized(tag) ==
    CASE tag = "PIN" ->
            [ang2pxl |-> 80,
             circle_size |-> <<1000, 16000>>,
             circularity_min |-> 3,
             default_clock_angle |-> 0,
             fid_triangle_area |-> 124,
             gauss |-> 200,
             orientation_left |-> <<TRUE, FALSE, 0>>,
             orientation_right |-> <<TRUE, TRUE, 0>>]
      [] OTHER -> NoPatch

MidasSpecifics(tag) ==
    CASE tag = "PIN" ->
            [ang2pxl |-> 80,
             circle_size |-> <<1000, 10000>>,
             circularity_min |-> 3,
             default_clock_angle |-> 0,
             fid_triangle_area |-> 124,
             gauss |-> 201,
             orientation_left |-> <<TRUE, FALSE, 0>>,
             orientation_right |-> <<TRUE, TRUE, 0>>]
      [] OTHER -> NoPatch

ML2Specifics(tag) ==
    CASE tag = "TET" ->
            [ang2pxl |-> 65,
             fid_triangle_area |-> 593,
             orientation_left |-> <<FALSE, FALSE, 90>>,
             orientation_right |-> <<FALSE, FALSE, 90>>]
      [] OTHER -> NoPatch

\* method resolution of set_test_system_specifics: Hydra and TriOptics inherit
\* DefaultDetection's
set_test_system_specifics(c, tag) ==
    CASE c = "Galileo" -> GalileoSpecifics(tag)
      [] c = "Midas" -> MidasSpecifics(tag)
      [] c = "ML2" -> ML2Specifics(tag)
      [] OTHER -> DefaultSpecifics(tag)

(***************************************************************************)
(* SpecProfile: one profile, constructed step by step and then specialized *)
(***************************************************************************)
KwargsSet == {<<>>} \cup {<<t>> : t \in Tags}

ProfIdle ==
    /\ pc = "idle" /\ cls = "Default" /\ kwargs = <<>> /\ prof = ClassAttrs
    /\ dirty = {} /\ nspec = 0 /\ calls = <<>>
AliasIdle == insts = <<>> /\ heap = <<>> /\ lastop = 0 /\ nops = 0
FnIdle == fn = "none" /\ args = <<>> /\ out = [status |-> "ok", val |-> <<>>] /\ fpc = "idle"

\* C(**kwargs): the new object has no attribute of its own and reads the class's
New(c, kw) ==
    /\ pc = "idle"
    /\ pc' = "new" /\ cls' = c /\ kwargs' = kw
    /\ prof' = ClassAttrs
    /\ dirty' = Normalized
    /\ UNCHANGED <<nspec, calls, aliasVars, fnVars>>

\* DefaultDetection.__init__, which every class runs first (super().__init__()
\* passes no keyword on, and DefaultDetection.__init__ reads none)
BaseInit ==
    /\ pc = "new"
    /\ prof' = DefaultInit(prof)
    /\ dirty' = {}
    /\ pc' = IF cls = "Default" THEN "done" ELSE "overrides"
    /\ UNCHANGED <<cls, kwargs, nspec, calls, aliasVars, fnVars>>

\* the assignments of the named class's __init__
ApplyOverrides ==
    /\ pc = "overrides"
    /\ prof' = Apply(prof, Overrides(cls))
    /\ dirty' = dirty \cup (DOMAIN Overrides(cls) \cap Normalized)
    /\ pc' = "check"
    /\ UNCHANGED <<cls, kwargs, nspec, calls, aliasVars, fnVars>>

\* the tag run ahead of the class's own assignments, which then prevail
CheckKwargsBeforeOverrides ==
    /\ pc = "check"
    /\ IF kwargs # <<>>
       THEN /\ prof' = Apply(Apply(prof, set_test_system_specifics(cls, kwargs[1])), Overrides(cls))
            /\ dirty' = dirty \cup (DOMAIN set_test_system_specifics(cls, kwargs[1]) \cap Normalized)
            /\ nspec' = nspec + 1
       ELSE UNCHANGED <<prof, dirty, nspec>>
    /\ pc' = "done"
    /\ UNCHANGED <<cls, kwargs, calls, aliasVars, fnVars>>

\* _check_kwargs(**kwargs), the last statement of the named class's __init__
CheckKwargs ==
    /\ pc = "check"
    /\ IF kwargs # <<>>
       THEN /\ prof' = Apply(prof, set_test_system_specifics(cls, kwargs[1]))
            /\ dirty' = dirty \cup (DOMAIN set_test_system_specifics(cls, kwargs[1]) \cap Normalized)
            /\ nspec' = nspec + 1
       ELSE UNCHANGED <<prof, dirty, nspec>>
    /\ pc' = "done"
    /\ UNCHANGED <<cls, kwargs, calls, aliasVars, fnVars>>

\* a caller's set_test_system_specifics(tag) on the constructed profile
Specialize(tag) ==
    /\ pc = "done"
    /\ Len(calls) < MaxCalls
    /\ prof' = Apply(prof, set_test_system_specifics(cls, tag))
    /\ dirty' = dirty \cup (DOMAIN set_test_system_specifics(cls, tag) \cap Normalized)
    /\ calls' = Append(calls, tag)
    /\ UNCHANGED <<pc, cls, kwargs, nspec, aliasVars, fnVars>>

InitProfile == ProfIdle /\ AliasIdle /\ FnIdle

NextProfile ==
    \/ \E c \in Classes, kw \in KwargsSet : New(c, kw)
    \/ BaseInit
    \/ ApplyOverrides
    \/ CheckKwargs
    \/ \E t \in Tags : Specialize(t)

SpecProfile == InitProfile /\ [][NextProfile]_vars

(***************************************************************************)
(* Claims about SpecProfile                                                *)
(***************************************************************************)
Last(s) == s[Len(s)]
\* the tags run on the profile so far: the constructor's, then the caller's
TagsRun == (IF nspec > 0 THEN {kwargs[1]} ELSE {}) \cup {calls[i] : i \in 1..Len(calls)}

\* C1: once the constructor has returned, and after any further
\* set_test_system_specifics calls, gauss is odd and at least 1, circle_size's
\* maximum is at most rect_size's minimum, and circle_size's minimum is at most
\* its maximum.
C1_ProfileInvariants ==
    pc = "done" =>
        /\ prof.gauss % 2 = 1
        /\ prof.gauss >= 1
        /\ prof.circle_size[2] <= prof.rect_size[1]
        /\ prof.circle_size[1] <= prof.circle_size[2]

C1_Witness ==
    /\ pc = "done" /\ cls = "Midas" /\ kwargs = <<"XYZ">>
    /\ calls = <<"PIN", "TET">>
    /\ prof.gauss = 201 /\ prof.circle_size = <<1000, 10000>>

\* the fields the specification lists for each tag of each profile
ListedFields(c, t) ==
    CASE c = "Galileo" /\ t = "JOHNNY5" -> {"hough_min_length"}
      [] c = "Galileo" /\ t = "BAT" -> {"default_pivot_point", "orientation_right"}
      [] c = "Midas" /\ t = "PIN" ->
            {"ang2pxl", "circle_size", "circularity_min", "default_clock_angle",
             "fid_triangle_area", "gauss", "orientation_left", "orientation_right"}
      [] c = "ML2" /\ t = "TET" ->
            {"ang2pxl", "fid_triangle_area", "orientation_left", "orientation_right"}
      [] OTHER -> {}
Whitelist(c) ==
    CASE c = "Galileo" -> {"JOHNNY5", "BAT"}
      [] c = "Midas" -> {"PIN"}
      [] c = "ML2" -> {"TET"}
      [] OTHER -> {}
\* what this step may change when it runs the specialization for tag t
FrameOK(t) ==
    /\ \A f \in Fields : prof'[f] # prof[f] => f \in ListedFields(cls, t)
    /\ t \notin Whitelist(cls) => prof' = prof
    /\ pc' = "done"
\* the profile of class c constructed with no tag
NoTagProfile(c) == Apply(DefaultInit(ClassAttrs), Overrides(c))

\* C5: a run of set_test_system_specifics(tag), by the constructor or by the
\* caller, changes no field outside the ones listed for that tag of that
\* profile, changes nothing at all for a tag outside the profile's whitelist,
\* and always completes; a profile on which only such tags were run equals the
\* profile constructed with no tag.
C5_SpecializationFrame ==
    /\ [][(pc = "check" /\ kwargs # <<>>) => FrameOK(kwargs[1])]_vars
    /\ [][(pc = "done" /\ calls' # calls) => FrameOK(Last(calls'))]_vars
    /\ [](pc = "done" /\ (\A t \in TagsRun : t \notin Whitelist(cls))
            => prof = NoTagProfile(cls))

C5_Witness ==
    /\ pc = "done" /\ cls = "Galileo" /\ kwargs = <<"XYZ">>
    /\ calls = <<"BAT", "PIN">>
    /\ prof.default_pivot_point = <<>>
    /\ prof.orientation_right = <<TRUE, FALSE, 0>>
    /\ prof.hough_min_length = 50

\* C10: when the constructor returns, no write to gauss, circle_size or
\* rect_size is left that no run of normalization followed.
C10_NormalizationFollowsEveryWrite ==
    (pc = "done" /\ calls = <<>>) => dirty = {}

\* C11: a named profile constructed with a test_system tag runs
\* set_test_system_specifics exactly once, as the constructor's last step after
\* the class's own assignments, so a field both assign holds the tag's value
\* (Midas/PIN gauss 201, ML2/TET ang2pxl 65); constructed without test_system
\* it runs it zero times; and once the constructor has returned the profile's
\* fields change only in a further set_test_system_specifics call.
C11_SpecializedOnceAndLast ==
    /\ [](pc = "done" => nspec = (IF cls # "Default" /\ kwargs # <<>> THEN 1 ELSE 0))
    /\ [][nspec' # nspec => (pc = "check" /\ pc' = "done" /\ nspec' = nspec + 1)]_vars
    /\ [][pc = "overrides" => (nspec = 0 /\ nspec' = 0 /\ pc' = "check")]_vars
    /\ []((pc = "done" /\ calls = <<>> /\ nspec = 1) =>
              /\ \A f \in DOMAIN Overrides(cls) \cap ListedFields(cls, kwargs[1]) :
                    prof[f] = set_test_system_specifics(cls, kwargs[1])[f]
              /\ (cls = "Midas" /\ kwargs = <<"PIN">>) => prof.gauss = 201
              /\ (cls = "ML2" /\ kwargs = <<"TET">>) => prof.ang2pxl = 65)
    /\ [][pc = "done" => (pc' = "done" /\ (prof' # prof => calls' # calls))]_vars

C11_Witness ==
    /\ pc = "done" /\ cls = "Midas" /\ kwargs = <<"PIN">> /\ calls = <<>>
    /\ nspec = 1
    /\ prof.gauss = 201 /\ prof.hough_min_length = 0


(***************************************************************************)
(* SpecFn: the helpers, each called once on inputs drawn from bounded sets *)
(*                                                                         *)
(* Numbers are finite reals.  A kernel value is the fixed-point number     *)
(* num/Scale.  A Euclidean distance d is kept as its square d*d, which is  *)
(* an integer for integer points and orders and separates distances        *)
(* exactly as d does.  An angle is in millionths of a degree.              *)
(***************************************************************************)
Ok(v) == [status |-> "ok", val |-> v]
Raise(e) == [status |-> e, val |-> <<>>]

Abs(x) == IF x < 0 THEN -x ELSE x
\* indices of a Python list: 0 .. len-1; refs[i] in Python is refs[i+1] here
Indices(refs) == 0 .. (Len(refs) - 1)
SetMin(S) == CHOOSE m \in S : \A x \in S : m <= x
SetMax(S) == CHOOSE m \in S : \A x \in S : m >= x

\* spatial.distance.euclidean(p, q), squared
Dist2(p, q) == (p[1] - q[1]) * (p[1] - q[1]) + (p[2] - q[2]) * (p[2] - q[2])

\* spatial.KDTree(references): scipy rejects data that is not 2-dimensional,
\* which an empty list is
KDTree(refs) == IF Len(refs) = 0 THEN "ValueError" ELSE "ok"

\* tree.query([check_point]): the distance to a nearest reference, and the
\* index of one of the nearest, which one being the tree's choice
KDTreeQuery(refs, cp) ==
    LET md == SetMin({Dist2(cp, refs[i + 1]) : i \in Indices(refs)})
    IN  [distance |-> md,
         index |-> {i \in Indices(refs) : Dist2(cp, refs[i + 1]) = md}]

\* the tree's own index returned (here the last of the nearest)
get_nearest_point_tree_index(cp, refs) ==
    IF KDTree(refs) # "ok" THEN Raise(KDTree(refs))
    ELSE LET q == KDTreeQuery(refs, cp)
         IN  Ok(<<SetMax(q.index), q.distance>>)

\* an empty list answered with index 0 and distance 0
get_nearest_point_empty_default(cp, refs) ==
    IF Len(refs) = 0 THEN Ok(<<0, 0>>)
    ELSE LET q == KDTreeQuery(refs, cp)
             nearest_indices == {i \in Indices(refs) : Dist2(cp, refs[i + 1]) = q.distance}
         IN  Ok(<<SetMin(nearest_indices), q.distance>>)

\* get_nearest_point(check_point, references): <<min_index, min_distance>>
get_nearest_point(cp, refs) ==
    IF KDTree(refs) # "ok" THEN Raise(KDTree(refs))
    ELSE LET q == KDTreeQuery(refs, cp)
             min_distance == q.distance
             nearest_indices == {i \in Indices(refs) : Dist2(cp, refs[i + 1]) = min_distance}
         IN  IF nearest_indices = {} THEN Raise("ValueError")   \* min() of an empty list
             ELSE Ok(<<SetMin(nearest_indices), min_distance>>)

\* Python's int(s / 2): the true quotient, truncated toward zero
IntHalf(s) == IF s >= 0 THEN s \div 2 ELSE -((-s) \div 2)

\* floor division in place of int(... / 2)
get_pxl_midpoint_floor(p1, p2) == <<(p1[1] + p2[1]) \div 2, (p1[2] + p2[2]) \div 2>>

\* get_pxl_midpoint(point1, point2)
get_pxl_midpoint(p1, p2) == <<IntHalf(p1[1] + p2[1]), IntHalf(p1[2] + p2[2])>>

\* math.degrees(math.atan(a / b)) for 0 <= a <= 8 and 1 <= b <= 8, in millionths
\* of a degree: AtanTable[a + 1][b]
AtanTable ==
    <<
    <<0, 0, 0, 0, 0, 0, 0, 0>>,
    <<45000000, 26565051, 18434949, 14036243, 11309932, 9462322, 8130102, 7125016>>,
    <<63434949, 45000000, 33690068, 26565051, 21801409, 18434949, 15945396, 14036243>>,
    <<71565051, 56309932, 45000000, 36869898, 30963757, 26565051, 23198591, 20556045>>,
    <<75963757, 63434949, 53130102, 45000000, 38659808, 33690068, 29744881, 26565051>>,
    <<78690068, 68198591, 59036243, 51340192, 45000000, 39805571, 35537678, 32005383>>,
    <<80537678, 71565051, 63434949, 56309932, 50194429, 45000000, 40601295, 36869898>>,
    <<81869898, 74054604, 66801409, 60255119, 54462322, 49398705, 45000000, 41185925>>,
    <<82874984, 75963757, 69443955, 63434949, 57994617, 53130102, 48814075, 45000000>>
    >>
Degrees(n) == n * 1000000
\* atan(y / x) in degrees for x # 0: odd in y / x
AtanDeg(y, x) ==
    (IF (y < 0) = (x < 0) THEN 1 ELSE -1) * AtanTable[Abs(y) + 1][Abs(x)]

\* math.degrees(math.atan2(y, x)) for finite y and x (a zero is the positive zero)
Atan2Deg(y, x) ==
    IF x > 0 THEN AtanDeg(y, x)
    ELSE IF x < 0 THEN (IF y >= 0 THEN AtanDeg(y, x) + Degrees(180)
                        ELSE AtanDeg(y, x) - Degrees(180))
    ELSE IF y > 0 THEN Degrees(90)
    ELSE IF y < 0 THEN -Degrees(90)
    ELSE 0

\* the difference taken from point2 to point1
get_point_angle_reversed(p1, p2) == Atan2Deg(p1[2] - p2[2], p1[1] - p2[1])

\* get_point_angle(point1, point2)
get_point_angle(p1, p2) == Atan2Deg(p2[2] - p1[2], p2[1] - p1[1])

RECURSIVE SeqsUpTo(_, _)
\* the sequences over S of length at most n
SeqsUpTo(S, n) ==
    IF n = 0 THEN {<<>>}
    ELSE LET shorter == SeqsUpTo(S, n - 1)
         IN  shorter \cup {Append(q, x) : q \in shorter, x \in S}

KernelInputs == {<<n>> : n \in (-(MaxKernel * Scale)) .. (MaxKernel * Scale)}
Sizes == (-1) .. MaxSize
SizeInputs == {<<<<a, b>>, <<c, d>>>> : a \in Sizes, b \in Sizes, c \in Sizes, d \in Sizes}
Points == {<<x, y>> : x \in (-MaxCoord) .. MaxCoord, y \in (-MaxCoord) .. MaxCoord}
PointPairs == {<<p, q>> : p \in Points, q \in Points}
NearPoints == {<<x, y>> : x \in 0 .. MaxNear, y \in 0 .. MaxNear}
NearInputs == {<<p, r>> : p \in NearPoints, r \in SeqsUpTo(NearPoints, MaxRefs)}

InputsOf(f) ==
    CASE f = "even_to_odd" -> KernelInputs
      [] f = "limit_fiducial_size" -> SizeInputs
      [] f = "get_nearest_point" -> NearInputs
      [] f = "get_pxl_midpoint" -> PointPairs
      [] f = "get_point_angle" -> PointPairs
Functions == {"even_to_odd", "limit_fiducial_size", "get_nearest_point",
              "get_pxl_midpoint", "get_point_angle"}

CallEvenToOdd ==
    /\ fn = "even_to_odd" /\ fpc = "call"
    /\ out' = Ok(<<even_to_odd(args[1])>>)
    /\ fpc' = "ret"
    /\ UNCHANGED <<fn, args, profVars, aliasVars>>

CallLimitFiducialSize ==
    /\ fn = "limit_fiducial_size" /\ fpc = "call"
    /\ out' = Ok(limit_fiducial_size(args[1], args[2]))
    /\ fpc' = "ret"
    /\ UNCHANGED <<fn, args, profVars, aliasVars>>

CallGetNearestPoint ==
    /\ fn = "get_nearest_point" /\ fpc = "call"
    /\ out' = get_nearest_point(args[1], args[2])
    /\ fpc' = "ret"
    /\ UNCHANGED <<fn, args, profVars, aliasVars>>

CallGetPxlMidpoint ==
    /\ fn = "get_pxl_midpoint" /\ fpc = "call"
    /\ out' = Ok(get_pxl_midpoint(args[1], args[2]))
    /\ fpc' = "ret"
    /\ UNCHANGED <<fn, args, profVars, aliasVars>>

CallGetPointAngle ==
    /\ fn = "get_point_angle" /\ fpc = "call"
    /\ out' = Ok(<<get_point_angle(args[1], args[2])>>)
    /\ fpc' = "ret"
    /\ UNCHANGED <<fn, args, profVars, aliasVars>>

InitFn ==
    /\ ProfIdle /\ AliasIdle
    /\ fn \in Functions
    /\ args \in InputsOf(fn)
    /\ out = Ok(<<>>)
    /\ fpc = "call"

NextFn ==
    \/ CallEvenToOdd
    \/ CallLimitFiducialSize
    \/ CallGetNearestPoint
    \/ CallGetPxlMidpoint
    \/ CallGetPointAngle

SpecFn == InitFn /\ [][NextFn]_vars

(***************************************************************************)
(* Claims about SpecFn                                                     *)
(***************************************************************************)
Returned(f) == fn = f /\ fpc = "ret"

\* C2: _even_to_odd returns an odd integer that is at least 1 for every input;
\* a negative input gives 1, an even non-negative integer is incremented by
\* one, an odd positive integer is returned unchanged; 10 gives 11, -3 gives 1.
C2_KernelNormalization ==
    Returned("even_to_odd") =>
        LET num == args[1]
            r == out.val[1]
            whole == num % Scale = 0
            v == num \div Scale
        IN  /\ out.status = "ok"
            /\ r % 2 = 1
            /\ r >= 1
            /\ num < 0 => r = 1
            /\ (whole /\ v >= 0 /\ v % 2 = 0) => r = v + 1
            /\ (whole /\ v > 0 /\ v % 2 = 1) => r = v
            /\ num = 10 * Scale => r = 11
            /\ num = (-3) * Scale => r = 1

C2_Witness == Returned("even_to_odd") /\ args = <<(-3) * Scale>> /\ out.val = <<1>>

\* C3: after _limit_fiducial_size the maximum of circle_size is at most the
\* minimum of rect_size; a range whose maximum already was is left unchanged;
\* when the maximum is clamped, a minimum above the clamped maximum becomes 0
\* and any other minimum is kept.
C3_FiducialClamp ==
    Returned("limit_fiducial_size") =>
        LET circle == args[1]
            rect == args[2]
            res == out.val
        IN  /\ res[2] <= rect[1]
            /\ circle[2] <= rect[1] => res = circle
            /\ circle[2] > rect[1] =>
                    /\ res[2] = rect[1]
                    /\ circle[1] > rect[1] => res[1] = 0
                    /\ circle[1] <= rect[1] => res[1] = circle[1]

C3_Witness ==
    Returned("limit_fiducial_size") /\ args = <<<<2, 3>>, <<1, 2>>>> /\ out.val = <<0, 1>>

\* C4: for a non-empty list get_nearest_point returns an index i and a
\* distance d where d is the least distance from check_point to a reference,
\* references[i] lies at distance d, and no reference before i does.
C4_NearestLowestIndex ==
    (Returned("get_nearest_point") /\ args[2] # <<>>) =>
        LET cp == args[1]
            refs == args[2]
        IN  /\ out.status = "ok"
            /\ out.val[1] \in Indices(refs)
            /\ \A k \in Indices(refs) : out.val[2] <= Dist2(cp, refs[k + 1])
            /\ Dist2(cp, refs[out.val[1] + 1]) = out.val[2]
            /\ \A k \in Indices(refs) : k < out.val[1] => Dist2(cp, refs[k + 1]) > out.val[2]

C4_Witness ==
    /\ Returned("get_nearest_point")
    /\ args = <<<<0, 0>>, <<<<1, 1>>, <<1, 0>>, <<0, 1>>>>>>
    /\ out.val = <<1, 1>>

\* C6 as stated: get_nearest_point on an empty list fails with InvalidInput.
C6_EmptyFailsInvalidInput ==
    (Returned("get_nearest_point") /\ args[2] = <<>>) => out.status = "InvalidInput"

\* C6 as amended: get_nearest_point on an empty list fails with the ValueError
\* that building the KD-tree raises, and returns no index/distance pair.
C6_EmptyFailsValueError ==
    (Returned("get_nearest_point") /\ args[2] = <<>>) =>
        (out.status = "ValueError" /\ out.val = <<>>)

C6_Witness ==
    Returned("get_nearest_point") /\ args = <<<<1, 0>>, <<>>>> /\ out.status = "ValueError"

\* C8: each coordinate of get_pxl_midpoint is the mean of the two inputs
\* rounded toward zero (a sum of -3 gives -1, a sum of 3 gives 1), and the
\* result does not depend on the order of the two points.
C8_MidpointTruncates ==
    Returned("get_pxl_midpoint") =>
        /\ \A k \in 1..2 :
              LET s == args[1][k] + args[2][k]
                  m == out.val[k]
              IN  /\ 2 * Abs(m) <= Abs(s)
                  /\ Abs(s) - 2 * Abs(m) <= 1
                  /\ m * s >= 0
                  /\ s = -3 => m = -1
                  /\ s = 3 => m = 1
        /\ out.val = get_pxl_midpoint(args[2], args[1])

C8_Witness ==
    Returned("get_pxl_midpoint") /\ args = <<<<-1, 1>>, <<-2, 2>>>> /\ out.val = <<-1, 1>>

\* C9: get_point_angle is the direction from point1 to point2 in degrees, in
\* (-180, 180]: 180 and never -180 when point2 lies in the -x direction,
\* 0 for equal points, positive above point1 and negative below, and swapping
\* two different points moves the angle by 180 degrees.
C9_AngleRange ==
    Returned("get_point_angle") =>
        LET a == out.val[1]
            dx == args[2][1] - args[1][1]
            dy == args[2][2] - args[1][2]
        IN  /\ a > -Degrees(180) /\ a <= Degrees(180)
            /\ (dy = 0 /\ dx < 0) => a = Degrees(180)
            /\ (dy = 0 /\ dx > 0) => a = 0
            /\ (dy = 0 /\ dx = 0) => a = 0
            /\ dy > 0 => (a > 0 /\ a < Degrees(180))
            /\ dy < 0 => (a < 0 /\ a > -Degrees(180))
            /\ dx > 0 => Abs(a) < Degrees(90)
            /\ dx < 0 => Abs(a) > Degrees(90)
            /\ (dx = 0 /\ dy # 0) => Abs(a) = Degrees(90)
            /\ (dx = dy /\ dx > 0) => a = Degrees(45)
            /\ args[1] # args[2] =>
                    Abs(a - get_point_angle(args[2], args[1])) = Degrees(180)

C9_Witness ==
    Returned("get_point_angle") /\ args = <<<<1, 0>>, <<-1, 0>>>> /\ out.val = <<Degrees(180)>>

(***************************************************************************)
(* SpecAlias: several instances, and the list objects their orientation    *)
(* attributes reference.                                                   *)
(*                                                                         *)
(* A list object lives at an address.  The two lists of the class body of  *)
(* DefaultDetection are at addresses 1 and 2.  A list that instance i      *)
(* assigns to one of its own attributes is at OwnAddr(i, f): the list it   *)
(* replaces there was referenced by that attribute alone.  An attribute an *)
(* instance never assigned is read from the class, so it references the    *)
(* class's list.  Tuples and numbers are immutable and are kept by value.  *)
(***************************************************************************)
ListFields == {"orientation_left", "orientation_right"}
ClassAddr(f) == IF f = "orientation_left" THEN 1 ELSE 2
OwnAddr(i, f) == 2 * i + ClassAddr(f)
Addresses == 1 .. (2 * MaxInst + 2)

\* what a new object reads before it assigns anything: the class attributes
NewAttrs == [f \in Fields |-> IF f \in ListFields THEN ClassAddr(f) ELSE ClassAttrs[f]]

\* self.f = v for every f of patch: a list literal is a new object
SetAttrs(i, at, patch) ==
    [f \in DOMAIN at |->
        IF f \in DOMAIN patch
        THEN (IF f \in ListFields THEN OwnAddr(i, f) ELSE patch[f])
        ELSE at[f]]
StoreLists(i, hp, patch) ==
    [a \in DOMAIN hp |->
        IF \E f \in ListFields \cap DOMAIN patch : a = OwnAddr(i, f)
        THEN patch[CHOOSE f \in ListFields \cap DOMAIN patch : a = OwnAddr(i, f)]
        ELSE hp[a]]

\* the attribute values read through instance i of instances is over heap hp
ViewIn(is, hp, i) ==
    [f \in Fields |->
        IF f \in ListFields THEN hp[is[i].attrs[f]] ELSE is[i].attrs[f]]
View(i) == ViewIn(insts, heap, i)

\* what the caller may assign to an attribute
AssignChoices == {[gauss |-> 5], [orientation_left |-> <<TRUE, TRUE, 0>>]}
\* what the caller may store into a slot of an orientation list: <<slot, value>>
MutateChoices == {<<1, TRUE>>, <<3, 45>>}

\* the tag a constructor runs: named classes call _check_kwargs
CtorPatch(c, kw) ==
    IF c # "Default" /\ kw # <<>> THEN set_test_system_specifics(c, kw[1]) ELSE NoPatch

\* x = C(**kw), the whole constructor
Construct(c, kw) ==
    /\ Len(insts) < MaxInst
    /\ LET i == Len(insts) + 1
           a0 == DefaultInit(NewAttrs)
           a1 == SetAttrs(i, a0, Overrides(c))
           h1 == StoreLists(i, heap, Overrides(c))
           a2 == SetAttrs(i, a1, CtorPatch(c, kw))
           h2 == StoreLists(i, h1, CtorPatch(c, kw))
       IN  /\ insts' = Append(insts, [cls |-> c, kw |-> kw, attrs |-> a2])
           /\ heap' = h2
           /\ lastop' = i
    /\ UNCHANGED <<nops, profVars, fnVars>>

\* x.set_test_system_specifics(tag)
SpecializeInst(i, tag) ==
    /\ i \in 1 .. Len(insts)
    /\ nops < MaxOps
    /\ nops' = nops + 1
    /\ LET patch == set_test_system_specifics(insts[i].cls, tag)
       IN  /\ insts' = [insts EXCEPT ![i].attrs = SetAttrs(i, @, patch)]
           /\ heap' = StoreLists(i, heap, patch)
    /\ lastop' = i
    /\ UNCHANGED <<profVars, fnVars>>

\* x.f = v
AssignField(i, patch) ==
    /\ i \in 1 .. Len(insts)
    /\ nops < MaxOps
    /\ nops' = nops + 1
    /\ insts' = [insts EXCEPT ![i].attrs = SetAttrs(i, @, patch)]
    /\ heap' = StoreLists(i, heap, patch)
    /\ lastop' = i
    /\ UNCHANGED <<profVars, fnVars>>

\* x.f[k] = v for a list attribute f
MutateList(i, f, kv) ==
    /\ i \in 1 .. Len(insts)
    /\ nops < MaxOps
    /\ nops' = nops + 1
    /\ heap' = [heap EXCEPT ![insts[i].attrs[f]][kv[1]] = kv[2]]
    /\ lastop' = i
    /\ UNCHANGED <<insts, profVars, fnVars>>

InitAlias ==
    /\ ProfIdle /\ FnIdle
    /\ insts = <<>>
    /\ heap = [a \in Addresses |->
                  IF a = 1 THEN ClassAttrs.orientation_left ELSE ClassAttrs.orientation_right]
    /\ lastop = 0
    /\ nops = 0

NextAlias ==
    \/ \E c \in Classes, kw \in KwargsSet : Construct(c, kw)
    \/ \E i \in 1 .. MaxInst, t \in Tags : SpecializeInst(i, t)
    \/ \E i \in 1 .. MaxInst, patch \in AssignChoices : AssignField(i, patch)
    \/ \E i \in 1 .. MaxInst, f \in ListFields, kv \in MutateChoices : MutateList(i, f, kv)

SpecAlias == InitAlias /\ [][NextAlias]_vars

(***************************************************************************)
(* Claims about SpecAlias                                                  *)
(***************************************************************************)
\* the attribute values of an instance of class c just constructed with kw
FreshView(c, kw) == Apply(Apply(DefaultInit(ClassAttrs), Overrides(c)), CtorPatch(c, kw))

\* C7: instances share no mutable state: an operation on one instance
\* (assigning an attribute, specializing, storing into one of its orientation
\* lists) leaves every attribute of every other instance unchanged, and an
\* instance constructed afterwards has the attribute values of its class.
C7_NoSharedMutableState ==
    [][/\ \A j \in 1 .. Len(insts) : j # lastop' => ViewIn(insts', heap', j) = View(j)
       /\ Len(insts') > Len(insts) =>
             ViewIn(insts', heap', Len(insts')) =
                 FreshView(insts'[Len(insts')].cls, insts'[Len(insts')].kw)]_vars

====
